---------------------------- MODULE Spec2Model ----------------------------
(***************************************************************************)
(* A model of syris' camera (src/syris/devices/cameras.py) and image       *)
(* tiler (src/syris/imageprocessing.py).                                   *)
(*                                                                         *)
(* The sources are Python 2: "/" between integers is floor division (the   *)
(* tiler slices arrays with its quotients), and None orders below every    *)
(* number.  Numbers are exact rationals n/d; a quantity carries a unit,    *)
(* and ".simplified" rescales it to the base unit.                         *)
(***************************************************************************)
EXTENDS Integers, Sequences, FiniteSets, TLC

(* ------------------------------ bounds -------------------------------- *)
\* magnitudes of the fps and exp_time inputs are n/d, n <= MaxNum, d <= MaxDen
MaxNum == 2
MaxDen == 2
\* images (camera shapes, photon images) hold at most MaxPixels pixels
MaxPixels == 2
\* dark_current inputs are 0..MaxDark electrons
MaxDark == 1
\* photon images hold 0..MaxPhotons photons per pixel
MaxPhotons == 1
\* gain inputs are 1..MaxGain, amplifier_sigma inputs 0..MaxSigma,
\* bits_per_pixel inputs 1..MaxBpp
MaxGain == 2
MaxSigma == 1
MaxBpp == 2
\* a Poisson draw of positive mean is any of 0..MaxDraw
MaxDraw == 4
\* a normal draw of positive sigma is its mean plus e/NoiseSteps,
\* e in -MaxNoise..MaxNoise
NoiseSteps == 2
MaxNoise == 3
\* a Tiler's base shape and its tiles_count hold at most MaxCells cells each
MaxCells == 3
\* supersampling inputs are 1..MaxSupersampling
MaxSupersampling == 2

(* --------------------------- program constants ------------------------ *)
\* np.ushort, the dtype of the returned image, has 16 bits
UShortBits == 16

(* --------------------------- optional values -------------------------- *)
\* Python's None is the empty sequence, a present value x is <<x>>.
None == <<>>
Some(x) == <<x>>
Get(o) == o[1]

(* ------------------------- numbers and quantities --------------------- *)
Abs(x) == IF x < 0 THEN -x ELSE x

RECURSIVE GCD(_, _)
GCD(a, b) == IF b = 0 THEN a ELSE GCD(b, a % b)

\* the rational n/d (d > 0) in lowest terms, with unit u
Quantity(n, d, u) ==
    LET g == GCD(Abs(n), d)
    IN  [n |-> n \div g, d |-> d \div g, u |-> u]

\* the power of 1000 a unit stands for, relative to its base unit
UnitExp(u) == CASE u = "ms" -> -1 [] u = "kHz" -> 1 [] OTHER -> 0

BaseUnit(u) == CASE u = "ms" -> "s" [] u = "kHz" -> "Hz" [] OTHER -> u

InverseUnit(u) ==
    CASE u = "s" -> "Hz" [] u = "ms" -> "kHz"
      [] u = "Hz" -> "s" [] u = "kHz" -> "ms" [] OTHER -> u

\* q.simplified: the same quantity in the base unit
simplified(q) ==
    CASE UnitExp(q.u) = 1  -> Quantity(q.n * 1000, q.d, BaseUnit(q.u))
      [] UnitExp(q.u) = -1 -> Quantity(q.n, q.d * 1000, BaseUnit(q.u))
      [] OTHER             -> q

\* 1.0 / q, for q # 0
Reciprocal(q) ==
    [n |-> IF q.n < 0 THEN -q.d ELSE q.d, d |-> Abs(q.n), u |-> InverseUnit(q.u)]

\* a <= b between quantities: compared in a common unit
QLe(a, b) ==
    LET x == simplified(a)
        y == simplified(b)
    IN  x.n * y.d <= y.n * x.d

QEq(a, b) == QLe(a, b) /\ QLe(b, a)

(* ------------------------------ cameras.py ---------------------------- *)
\* is_fps_feasible with a strict comparison
is_fps_feasible_strict(fps, exp_time) ==
    IF fps = None THEN [exc |-> "TypeError", val |-> FALSE]
    ELSE IF Get(fps).n = 0 THEN [exc |-> "ZeroDivisionError", val |-> FALSE]
    ELSE IF exp_time = None THEN [exc |-> "none", val |-> TRUE]
    ELSE [exc |-> "none", val |-> ~QLe(Reciprocal(Get(fps)), Get(exp_time))]

\* is_fps_feasible(fps, exp_time): exp_time <= 1.0 / fps.  The arguments
\* are optional values; the result is a value or the exception raised.
is_fps_feasible(fps, exp_time) ==
    IF fps = None THEN [exc |-> "TypeError", val |-> FALSE]
    ELSE IF Get(fps).n = 0 THEN [exc |-> "ZeroDivisionError", val |-> FALSE]
    ELSE IF exp_time = None THEN [exc |-> "none", val |-> TRUE]
    ELSE [exc |-> "none", val |-> QLe(Get(exp_time), Reciprocal(Get(fps)))]

\* _fps_check_raise(fps, exp_time): the exception it ends with, or "none"
fps_check_raise(fps, exp_time) ==
    LET r == is_fps_feasible(fps, exp_time)
    IN  IF r.exc # "none" THEN r.exc
        ELSE IF ~r.val THEN "FPSError"
        ELSE "none"

\* the pixel indices (y, x) of an array of shape (h, w)
Cells(shape) == (0 .. shape[1] - 1) \X (0 .. shape[2] - 1)

\* np.ones(shape, dtype) * value
Filled(shape, value) == [shape |-> shape, at |-> [c \in Cells(shape) |-> value]]

\* the value of an attribute that was never assigned (has_* is FALSE)
NoArray == Filled(<<0, 0>>, 0)

\* no Camera object (before the constructor returns, or after it raised)
NoCamera ==
    [live |-> FALSE, pixel_size |-> 0, gain |-> 0, dark_current |-> 0,
     amplifier_sigma |-> 0, bpp |-> 0, quantum_effs |-> 0,
     shape |-> None,
     has_priv_dark_image |-> FALSE, priv_dark_image |-> NoArray,
     has_dark_image |-> FALSE,
     exp_time |-> None, fps |-> None]

NoCall ==
    [op |-> "none", fps |-> None, exp_time |-> None, shape |-> None,
     pre_fps |-> None, pre_exp_time |-> None]

VARIABLES
    cam,        \* the Camera object: its attributes
    cam_exc,    \* the exception the last Camera call raised, or "none"
    cam_call,   \* the last Camera call: its arguments, and fps/exp_time before it
    image,      \* what the last get_image returned (None: nothing returned)
    tiler,      \* the Tiler object: its attributes, _overall among them
    t_exc,      \* the exception the last Tiler call raised, or "none"
    t_call,     \* the arguments of the last insert, if it returned (else None)
    query       \* the last is_fps_feasible call: its arguments and its outcome

cam_vars == <<cam, cam_exc, cam_call, image>>
tiler_vars == <<tiler, t_exc, t_call>>
vars == <<cam, cam_exc, cam_call, image, tiler, t_exc, t_call, query>>

\* the shape property setter applied to the attributes c
shape_setter(c, shape) ==
    IF shape # None
    THEN [c EXCEPT !.shape = shape,
                   !.has_priv_dark_image = TRUE,
                   !.priv_dark_image = Filled(Get(shape), c.dark_current)]
    ELSE [c EXCEPT !.shape = shape,
                   !.has_dark_image = TRUE]

\* Camera.__init__: the exception raised ("none": the object is built) and
\* the object
CameraInit(pixel_size, gain, dark_current, amplifier_sigma, bits_per_pixel, quantum_efficiencies, shape, exp_time, fps) ==
    LET c0 == shape_setter(
                 [NoCamera EXCEPT !.live = TRUE,
                                  !.pixel_size = pixel_size,
                                  !.gain = gain,
                                  !.dark_current = dark_current,
                                  !.amplifier_sigma = amplifier_sigma,
                                  !.bpp = bits_per_pixel,
                                  !.quantum_effs = quantum_efficiencies],
                 shape)
        div0 == \/ fps # None /\ exp_time = None /\ Get(fps).n = 0
                \/ fps = None /\ exp_time # None /\ Get(exp_time).n = 0
        exp1 == IF fps # None /\ exp_time = None
                THEN Some(Reciprocal(Get(fps))) ELSE exp_time
        fps1 == IF fps = None /\ exp_time # None
                THEN Some(Reciprocal(Get(exp_time))) ELSE fps
        exc  == IF div0 THEN "ZeroDivisionError"
                ELSE IF fps1 # None THEN fps_check_raise(fps1, exp1)
                ELSE "none"
    IN  [exc |-> exc,
         cam |-> IF exc = "none"
                 THEN [c0 EXCEPT !.exp_time = exp1, !.fps = fps1]
                 ELSE NoCamera]

Construct(pixel_size, gain, dark_current, amplifier_sigma, bits_per_pixel, quantum_efficiencies, shape, exp_time, fps) ==
    /\ ~cam.live
    /\ LET r == CameraInit(pixel_size, gain, dark_current, amplifier_sigma,
                           bits_per_pixel, quantum_efficiencies, shape,
                           exp_time, fps)
       IN  /\ cam' = r.cam
           /\ cam_exc' = r.exc
    /\ cam_call' = [NoCall EXCEPT !.op = "init", !.fps = fps,
                                  !.exp_time = exp_time, !.shape = shape]
    /\ image' = None
    /\ UNCHANGED <<tiler_vars, query>>

\* camera.shape = shape
SetShape(shape) ==
    /\ cam.live
    /\ cam' = shape_setter(cam, shape)
    /\ cam_exc' = "none"
    /\ cam_call' = [NoCall EXCEPT !.op = "set_shape", !.shape = shape,
                                  !.pre_fps = cam.fps,
                                  !.pre_exp_time = cam.exp_time]
    /\ image' = None
    /\ UNCHANGED <<tiler_vars, query>>

\* the exp_time setter without its feasibility check
SetExpTimeUnchecked(exp_time) ==
    /\ cam.live
    /\ cam_exc' = "none"
    /\ cam' = [cam EXCEPT !.exp_time = Some(simplified(exp_time))]
    /\ cam_call' = [NoCall EXCEPT !.op = "set_exp_time",
                                  !.exp_time = Some(exp_time),
                                  !.pre_fps = cam.fps,
                                  !.pre_exp_time = cam.exp_time]
    /\ image' = None
    /\ UNCHANGED <<tiler_vars, query>>

\* camera.exp_time = exp_time
SetExpTime(exp_time) ==
    /\ cam.live
    /\ LET exc == fps_check_raise(cam.fps, Some(exp_time))
       IN  /\ cam_exc' = exc
           /\ cam' = IF exc = "none"
                     THEN [cam EXCEPT !.exp_time = Some(simplified(exp_time))]
                     ELSE cam
    /\ cam_call' = [NoCall EXCEPT !.op = "set_exp_time",
                                  !.exp_time = Some(exp_time),
                                  !.pre_fps = cam.fps,
                                  !.pre_exp_time = cam.exp_time]
    /\ image' = None
    /\ UNCHANGED <<tiler_vars, query>>

\* the fps setter committing before it checks
SetFpsCommitFirst(fps) ==
    /\ cam.live
    /\ cam_exc' = fps_check_raise(Some(fps), cam.exp_time)
    /\ cam' = [cam EXCEPT !.fps = Some(simplified(fps))]
    /\ cam_call' = [NoCall EXCEPT !.op = "set_fps",
                                  !.fps = Some(fps),
                                  !.pre_fps = cam.fps,
                                  !.pre_exp_time = cam.exp_time]
    /\ image' = None
    /\ UNCHANGED <<tiler_vars, query>>

\* camera.fps = fps
SetFps(fps) ==
    /\ cam.live
    /\ LET exc == fps_check_raise(Some(fps), cam.exp_time)
       IN  /\ cam_exc' = exc
           /\ cam' = IF exc = "none"
                     THEN [cam EXCEPT !.fps = Some(simplified(fps))]
                     ELSE cam
    /\ cam_call' = [NoCall EXCEPT !.op = "set_fps",
                                  !.fps = Some(fps),
                                  !.pre_fps = cam.fps,
                                  !.pre_exp_time = cam.exp_time]
    /\ image' = None
    /\ UNCHANGED <<tiler_vars, query>>

(* ------------------------------ get_image ----------------------------- *)
\* numpy broadcasting of two 2-D shapes: <<>> when they do not broadcast
BroadcastShape(a, b) ==
    IF \A k \in 1 .. 2 : a[k] = b[k] \/ a[k] = 1 \/ b[k] = 1
    THEN Some(<<IF a[1] = 1 THEN b[1] ELSE a[1], IF a[2] = 1 THEN b[2] ELSE a[2]>>)
    ELSE None

\* the element of array a that broadcasting places at cell c
BroadcastAt(a, c) ==
    a.at[<<IF a.shape[1] = 1 THEN 0 ELSE c[1], IF a.shape[2] = 1 THEN 0 ELSE c[2]>>]

\* np.random.poisson(lam): the possible draws
PoissonDraws(lam) == IF lam = 0 THEN {0} ELSE 0 .. MaxDraw

\* np.random.normal(loc, sigma): the possible draws, in 1/NoiseSteps units
NormalDraws(loc, sigma) ==
    IF sigma = 0 THEN {loc * NoiseSteps}
    ELSE {loc * NoiseSteps + e : e \in -MaxNoise .. MaxNoise}

\* Camera.max_grey_value
max_grey_value(c) == 2 ^ c.bpp - 1

\* res[np.where(res > max_grey_value)] = max_grey_value, on one value
\* in 1/NoiseSteps units
Clip(c, res) ==
    IF res > max_grey_value(c) * NoiseSteps
    THEN max_grey_value(c) * NoiseSteps ELSE res

\* the float res/NoiseSteps truncated towards zero
Truncated(res) ==
    IF res >= 0 THEN res \div NoiseSteps ELSE -((-res) \div NoiseSteps)

\* astype(np.ushort) of one float: the truncated value when it fits; a
\* value out of range is undefined in C, and the build wraps modulo
\* 2^16 or saturates
AsUShort(res) ==
    LET t == Truncated(res)
        top == 2 ^ UShortBits
    IN  IF 0 <= t /\ t < top THEN {t}
        ELSE {t % top, IF t < 0 THEN 0 ELSE top - 1}

\* the values get_image can return at a pixel with lam expected electrons
PixelOutcomes(c, lam) ==
    UNION {AsUShort(Clip(c, c.gain * x)) :
             x \in UNION {NormalDraws(p, c.amplifier_sigma) : p \in PoissonDraws(lam)}}

\* camera.get_image(photons); the caller holds one returned image at a time
GetImage(photons) ==
    /\ cam.live
    /\ image = None
    /\ cam_call' = [NoCall EXCEPT !.op = "get_image",
                                  !.pre_fps = cam.fps,
                                  !.pre_exp_time = cam.exp_time]
    /\ cam' = cam
    /\ UNCHANGED <<tiler_vars, query>>
    /\ IF ~cam.has_priv_dark_image
       THEN cam_exc' = "AttributeError" /\ image' = None
       ELSE LET bs == BroadcastShape(photons.shape, cam.priv_dark_image.shape)
            IN  IF bs = None
                THEN cam_exc' = "ValueError" /\ image' = None
                ELSE LET lam == [x \in Cells(Get(bs)) |->
                                   BroadcastAt(photons, x)
                                   + BroadcastAt(cam.priv_dark_image, x)]
                         all == UNION {PixelOutcomes(cam, lam[x]) : x \in Cells(Get(bs))}
                     IN  /\ cam_exc' = "none"
                         /\ \E img \in [Cells(Get(bs)) -> all] :
                              /\ \A x \in Cells(Get(bs)) :
                                    img[x] \in PixelOutcomes(cam, lam[x])
                              /\ image' = Some([shape |-> Get(bs), at |-> img])

\* the caller drops the image get_image returned
Release ==
    /\ image # None
    /\ image' = None
    /\ UNCHANGED <<cam, cam_exc, cam_call, tiler_vars, query>>

(* --------------------------- imageprocessing.py ----------------------- *)
\* An array cell holds <<id, y, x>>: element (y, x) of the tile with that
\* id.  Id 0 is what np.empty left there: uninitialised memory.
Tile(id, shape) ==
    [shape |-> shape, at |-> [c \in Cells(shape) |-> <<id, c[1], c[2]>>]]

\* no Tiler object (before the constructor returns, or after it raised)
NoTiler ==
    [live |-> FALSE, tiles_count |-> <<0, 0>>, outlier_coeff |-> 0,
     supersampling |-> 0, shape |-> <<0, 0>>, overall |-> NoArray]

\* _check_tiling(shape, tiles_count): the exception it raises, or "none"
check_tiling(shape, tiles_count) ==
    IF shape[1] % tiles_count[1] # 0 \/ shape[2] % tiles_count[2] # 0
    THEN "ValueError" ELSE "none"

\* Tiler.__init__; empty is the memory np.empty hands out
TilerInit(shape, tiles_count, outlier, supersampling, empty) ==
    LET exc == check_tiling(shape, tiles_count)
        sshape == <<shape[1] * supersampling, shape[2] * supersampling>>
        oshape == <<sshape[1] \div supersampling, sshape[2] \div supersampling>>
    IN  [exc |-> exc,
         tiler |-> IF exc # "none" THEN NoTiler
                   ELSE [live |-> TRUE,
                         tiles_count |-> tiles_count,
                         outlier_coeff |-> IF outlier THEN 2 ELSE 1,
                         supersampling |-> supersampling,
                         shape |-> sshape,
                         overall |-> [shape |-> oshape,
                                      at |-> [c \in Cells(oshape) |-> empty[c]]]]]

\* Tiler.outlier
outlier(t) == t.outlier_coeff - 1 # 0

\* Tiler.tile_shape
tile_shape(t) ==
    <<(t.outlier_coeff * t.shape[1]) \div t.tiles_count[1],
      (t.outlier_coeff * t.shape[2]) \div t.tiles_count[2]>>

\* tile_indices shifting the outlier tiles by half a tile, not a quarter
tile_indices_half_shift(t) ==
    LET ind(k, i) == (i * tile_shape(t)[k]) \div t.outlier_coeff
        shift(k) == IF outlier(t) THEN tile_shape(t)[k] \div 2 ELSE 0
    IN  [g \in (0 .. t.tiles_count[1] - 1) \X (0 .. t.tiles_count[2] - 1) |->
           <<ind(1, g[1]) - shift(1), ind(2, g[2]) - shift(2)>>]

\* Tiler.tile_indices: the origin (y, x) of the tile at each grid index
tile_indices(t) ==
    LET ind(k, i) == (i * tile_shape(t)[k]) \div t.outlier_coeff
        shift(k) == IF outlier(t) THEN tile_shape(t)[k] \div 4 ELSE 0
    IN  [g \in (0 .. t.tiles_count[1] - 1) \X (0 .. t.tiles_count[2] - 1) |->
           <<ind(1, g[1]) - shift(1), ind(2, g[2]) - shift(2)>>]

\* the local tile_shape of insert with the supersampling left in
insert_tile_shape_supersampled(t) ==
    <<tile_shape(t)[1] \div t.outlier_coeff, tile_shape(t)[2] \div t.outlier_coeff>>

\* the local tile_shape of insert: supersampling and outlier taken out
insert_tile_shape(t) ==
    <<(tile_shape(t)[1] \div t.supersampling) \div t.outlier_coeff,
      (tile_shape(t)[2] \div t.supersampling) \div t.outlier_coeff>>

\* a slice bound on an axis of length len: negative bounds count from the
\* end, and bounds are clipped to the axis
SliceBound(v, len) ==
    IF v < 0 THEN (IF v + len < 0 THEN 0 ELSE v + len)
    ELSE IF v > len THEN len ELSE v

\* the slices of insert with the column slice taken from the row index
InsertRegionRowIndexTwice(t, indices) ==
    LET ts == insert_tile_shape(t)
        y0 == SliceBound(indices[1] * ts[1], t.overall.shape[1])
        y1 == SliceBound(ts[1] * (indices[1] + 1), t.overall.shape[1])
        x0 == SliceBound(indices[1] * ts[2], t.overall.shape[2])
        x1 == SliceBound(ts[2] * (indices[1] + 1), t.overall.shape[2])
    IN  [y0 |-> y0, x0 |-> x0, rows |-> y0 .. y1 - 1, cols |-> x0 .. x1 - 1]

\* the slices insert assigns to: first row and column, and the index sets
InsertRegion(t, indices) ==
    LET ts == insert_tile_shape(t)
        y0 == SliceBound(indices[1] * ts[1], t.overall.shape[1])
        y1 == SliceBound(ts[1] * (indices[1] + 1), t.overall.shape[1])
        x0 == SliceBound(indices[2] * ts[2], t.overall.shape[2])
        x1 == SliceBound(ts[2] * (indices[2] + 1), t.overall.shape[2])
    IN  [y0 |-> y0, x0 |-> x0, rows |-> y0 .. y1 - 1, cols |-> x0 .. x1 - 1]

\* Tiler.insert(tile, indices): the exception raised and _overall after it.
\* The slice assignment broadcasts tile, and raises ValueError if it cannot.
insert(t, tile, indices) ==
    LET r  == InsertRegion(t, indices)
        ok == /\ tile.shape[1] = Cardinality(r.rows) \/ tile.shape[1] = 1
              /\ tile.shape[2] = Cardinality(r.cols) \/ tile.shape[2] = 1
    IN  IF ~ok THEN [exc |-> "ValueError", overall |-> t.overall]
        ELSE [exc |-> "none",
              overall |->
                [t.overall EXCEPT !.at =
                   [c \in Cells(t.overall.shape) |->
                      IF c[1] \in r.rows /\ c[2] \in r.cols
                      THEN tile.at[<<IF tile.shape[1] = 1 THEN 0 ELSE c[1] - r.y0,
                                     IF tile.shape[2] = 1 THEN 0 ELSE c[2] - r.x0>>]
                      ELSE t.overall.at[c]]]]

TilerConstruct(shape, tiles_count, outlier_, supersampling, empty) ==
    /\ ~tiler.live
    /\ LET r == TilerInit(shape, tiles_count, outlier_, supersampling, empty)
       IN  /\ tiler' = r.tiler
           /\ t_exc' = r.exc
    /\ t_call' = None
    /\ UNCHANGED <<cam_vars, query>>

Insert(tile, indices) ==
    /\ tiler.live
    /\ LET r == insert(tiler, tile, indices)
       IN  /\ tiler' = [tiler EXCEPT !.overall = r.overall]
           /\ t_exc' = r.exc
           /\ t_call' = IF r.exc = "none"
                        THEN Some([tile |-> tile, indices |-> indices])
                        ELSE None
    /\ UNCHANGED <<cam_vars, query>>

(* ------------------------ calls of is_fps_feasible -------------------- *)
NoQuery ==
    [asked |-> FALSE, fps |-> None, exp_time |-> None,
     result |-> [exc |-> "none", val |-> FALSE]]

Evaluate(fps, exp_time) ==
    /\ query' = [asked |-> TRUE, fps |-> Some(fps), exp_time |-> Some(exp_time),
                 result |-> is_fps_feasible(Some(fps), Some(exp_time))]
    /\ UNCHANGED <<cam_vars, tiler_vars>>

(* ---------------------------- inputs and runs ------------------------ *)
Magnitudes ==
    {<<n, d>> \in (1 .. MaxNum) \X (1 .. MaxDen) : GCD(n, d) = 1}

Times == {Quantity(m[1], m[2], u) : m \in Magnitudes, u \in {"s", "ms"}}

Rates == {Quantity(m[1], m[2], u) : m \in Magnitudes, u \in {"Hz", "kHz"}}

Optional(S) == {None} \cup {Some(x) : x \in S}

Shapes ==
    {s \in (1 .. MaxPixels) \X (1 .. MaxPixels) : s[1] * s[2] <= MaxPixels}

Init ==
    /\ cam = NoCamera
    /\ cam_exc = "none"
    /\ cam_call = NoCall
    /\ image = None
    /\ tiler = NoTiler
    /\ t_exc = "none"
    /\ t_call = None
    /\ query = NoQuery

\* a camera, and assignments of fps and exp_time
CamNext ==
    \/ \E sh \in Optional(Shapes), et \in Optional(Times), f \in Optional(Rates) :
          Construct(1, 1, MaxDark, 0, 8, 1, sh, et, f)
    \/ \E et \in Times : SetExpTime(et)
    \/ \E f \in Rates : SetFps(f)

SpecCamera == Init /\ [][CamNext]_vars

PhotonImages ==
    UNION {{[shape |-> sh, at |-> a] : a \in [Cells(sh) -> 0 .. MaxPhotons]} :
             sh \in Shapes}

\* a camera without fps and exp_time, assignments of shape, and exposures
NoiseNext ==
    \/ \E g \in 1 .. MaxGain, dc \in 0 .. MaxDark, sg \in 0 .. MaxSigma,
          b \in 1 .. MaxBpp, sh \in Optional(Shapes) :
          Construct(1, g, dc, sg, b, 1, sh, None, None)
    \/ \E sh \in Optional(Shapes) : SetShape(sh)
    \/ \E ph \in PhotonImages : GetImage(ph)
    \/ Release

SpecNoise == Init /\ [][NoiseNext]_vars

GridShapes ==
    {s \in (1 .. MaxCells) \X (1 .. MaxCells) : s[1] * s[2] <= MaxCells}

\* what np.empty leaves in a cell
Uninitialised == <<0, 0, 0>>

\* tiles are told apart by their id
TileIds == {1, 2}

\* the tiles passed to insert: of the shape insert expects, one row longer,
\* one column wider, and a single element
TileShapes(t) ==
    LET ts == insert_tile_shape(t)
    IN  {ts, <<ts[1] + 1, ts[2]>>, <<ts[1], ts[2] + 1>>, <<1, 1>>}

\* the indices passed to insert on an axis with n tiles: the grid, one
\* past it, and the negative indices -1 and -n
AxisIndices(n) == (0 .. n) \cup {-1, -n}

\* the indices passed to insert: off the grid on at most one axis
InsertIndices(t) ==
    {i \in AxisIndices(t.tiles_count[1]) \X AxisIndices(t.tiles_count[2]) :
       \/ i[1] \in 0 .. t.tiles_count[1] - 1
       \/ i[2] \in 0 .. t.tiles_count[2] - 1}

TilerNext ==
    \/ \E sh \in GridShapes, tc \in GridShapes, o \in BOOLEAN,
          ss \in 1 .. MaxSupersampling :
          TilerConstruct(sh, tc, o, ss, [c \in Cells(sh) |-> Uninitialised])
    \/ /\ tiler.live
       /\ \E id \in TileIds, tsh \in TileShapes(tiler), i \in InsertIndices(tiler) :
             Insert(Tile(id, tsh), i)

SpecTiler == Init /\ [][TilerNext]_vars

\* plain numbers, and quantities; a zero rate is left to the plain numbers
\* (1.0 / 0 raises for a float)
Signed(u) ==
    {Quantity(n, d, u) : n \in -MaxNum .. MaxNum, d \in 1 .. MaxDen}

FeasibleNext ==
    \/ \E f \in Signed("1"), e \in Signed("1") : Evaluate(f, e)
    \/ \E f \in {q \in Signed("Hz") \cup Signed("kHz") : q.n # 0},
          e \in Signed("s") \cup Signed("ms") : Evaluate(f, e)

SpecFeasible == Init /\ [][FeasibleNext]_vars

(* ======================== properties of the camera ==================== *)
\* exp_time * fps <= 1 and exp_time * fps >= 1, in exact arithmetic
ProductAtMostOne(fps, exp_time) ==
    LET f == simplified(fps)
        e == simplified(exp_time)
    IN  e.n * f.n <= e.d * f.d

ProductAtLeastOne(fps, exp_time) ==
    LET f == simplified(fps)
        e == simplified(exp_time)
    IN  e.n * f.n >= e.d * f.d

\* exp_time <= 1/fps, for a rate fps # 0
WithinFramePeriod(fps, exp_time) ==
    IF fps.n > 0 THEN ProductAtMostOne(fps, exp_time)
    ELSE ProductAtLeastOne(fps, exp_time)

\* C1: in every state a Camera reaches by its constructor and any sequence
\* of fps and exp_time assignments, accepted or rejected, if both fps and
\* exp_time are set then exp_time <= 1/fps.
C1_ExposureWithinFramePeriod ==
    (cam.live /\ cam.fps # None /\ cam.exp_time # None)
        => WithinFramePeriod(Get(cam.fps), Get(cam.exp_time))

\* an exp_time assignment was accepted on a camera that had both fields set,
\* and it left exp_time at exactly 1/fps
C1_Witness ==
    /\ cam.live
    /\ cam_call.op = "set_exp_time"
    /\ cam_exc = "none"
    /\ cam_call.pre_fps # None /\ cam_call.pre_exp_time # None
    /\ cam.exp_time # cam_call.pre_exp_time
    /\ QEq(Get(cam.exp_time), Reciprocal(Get(cam.fps)))

\* C5: on a Camera with fps and exp_time both unset, assigning fps succeeds
\* and leaves exp_time = 1/fps, and assigning exp_time succeeds and leaves
\* fps = 1/exp_time, for the constructor arguments and for the setters.
C5_UnsetFieldIsDerived ==
    LET derived == /\ cam_exc = "none"
                   /\ cam.live
                   /\ cam.fps # None /\ cam.exp_time # None
                   /\ QEq(Get(cam.exp_time), Reciprocal(Get(cam.fps)))
    IN  /\ (cam_call.op = "init"
            /\ (cam_call.fps = None) # (cam_call.exp_time = None)) => derived
        /\ (cam_call.op \in {"set_fps", "set_exp_time"}
            /\ cam_call.pre_fps = None /\ cam_call.pre_exp_time = None) => derived

\* C6: an fps or exp_time assignment that is rejected with the feasibility
\* error leaves every attribute of the Camera as it was before the call.
C6_RejectedAssignmentChangesNothing ==
    [][(cam_exc' = "FPSError" /\ cam_call'.op \in {"set_fps", "set_exp_time"})
          => cam' = cam]_vars

\* an fps assignment was rejected on a camera that has both fields set
C6_Witness ==
    /\ cam.live
    /\ cam_call.op = "set_fps"
    /\ cam_exc = "FPSError"
    /\ cam.fps # None /\ cam.exp_time # None
    /\ ~WithinFramePeriod(Get(cam_call.fps), Get(cam.exp_time))

\* C8: after the constructor and any sequence of shape assignments, the dark
\* image get_image reads (_dark_image) is a buffer of the current shape
\* filled with dark_current when shape is set, and is absent when shape is
\* unset.
C8_DarkImageFollowsShape ==
    cam.live =>
        IF cam.shape # None
        THEN /\ cam.has_priv_dark_image
             /\ cam.priv_dark_image.shape = Get(cam.shape)
             /\ \A c \in Cells(Get(cam.shape)) :
                   cam.priv_dark_image.at[c] = cam.dark_current
        ELSE ~cam.has_priv_dark_image

\* C2: every pixel get_image returns is an integer in [0, 2^bits_per_pixel - 1],
\* whatever the Poisson and the normal draws were.
C2_ImageWithinGreyRange ==
    image # None =>
        \A c \in Cells(Get(image).shape) :
            /\ 0 <= Get(image).at[c]
            /\ Get(image).at[c] <= 2 ^ cam.bpp - 1

\* C9 as claimed: for every fps and exp_time, is_fps_feasible returns true
\* iff exp_time * fps <= 1.
C9_FeasibleIffProductAtMostOne ==
    query.asked =>
        /\ query.result.exc = "none"
        /\ query.result.val = ProductAtMostOne(Get(query.fps), Get(query.exp_time))

\* C9 as amended: for fps > 0, is_fps_feasible returns true iff
\* exp_time * fps <= 1 (the boundary is feasible); for fps < 0 it returns
\* true iff exp_time * fps >= 1; for fps = 0 it raises ZeroDivisionError.
C9_FeasibleIffProductAtMostOneForPositiveFps ==
    query.asked =>
        LET f == Get(query.fps)
            e == Get(query.exp_time)
        IN  /\ f.n > 0 => /\ query.result.exc = "none"
                          /\ query.result.val = ProductAtMostOne(f, e)
            /\ f.n < 0 => /\ query.result.exc = "none"
                          /\ query.result.val = ProductAtLeastOne(f, e)
            /\ f.n = 0 => query.result.exc = "ZeroDivisionError"

\* is_fps_feasible was called on the boundary, fps = 1 kHz and
\* exp_time = 1 ms, and returned true
C9_Witness ==
    /\ query.asked
    /\ Get(query.fps) = Quantity(1, 1, "kHz")
    /\ Get(query.exp_time) = Quantity(1, 1, "ms")
    /\ query.result = [exc |-> "none", val |-> TRUE]

(* ========================= properties of the tiler ==================== *)
\* the grid indices of a Tiler
Grid(t) == (0 .. t.tiles_count[1] - 1) \X (0 .. t.tiles_count[2] - 1)

\* the shape a tile passed to insert is to have: the base shape over
\* tiles_count
InteriorShape(t) ==
    <<t.overall.shape[1] \div t.tiles_count[1],
      t.overall.shape[2] \div t.tiles_count[2]>>

\* the grid index whose block of the accumulator holds cell c
GridOf(t, c) == <<c[1] \div InteriorShape(t)[1], c[2] \div InteriorShape(t)[2]>>

\* the place of cell c in the block of its grid index
OffsetOf(t, c) == <<c[1] % InteriorShape(t)[1], c[2] % InteriorShape(t)[2]>>

\* the cells insert assigns to for the indices g
Targeted(t, g) == InsertRegion(t, g).rows \X InsertRegion(t, g).cols

\* a call of insert that keeps to its contract
WellFormed(t, call) ==
    /\ call.tile.shape = InteriorShape(t)
    /\ call.indices \in Grid(t)

\* the grid indices in row-major order
GridSeq(t) ==
    [k \in 1 .. t.tiles_count[1] * t.tiles_count[2] |->
       <<(k - 1) \div t.tiles_count[2], (k - 1) % t.tiles_count[2]>>]

Reversed(s) == [k \in 1 .. Len(s) |-> s[Len(s) + 1 - k]]

\* the Tiler after inserting, in the order of s, the tile ids[g] at each g
RECURSIVE InsertAll(_, _, _)
InsertAll(t, s, ids) ==
    IF s = <<>> THEN t
    ELSE InsertAll([t EXCEPT !.overall =
                      insert(t, Tile(ids[Head(s)], InteriorShape(t)), Head(s)).overall],
                   Tail(s), ids)

\* C3: for a Tiler with outlier=False, the regions insert targets over the
\* grid partition the accumulator (every cell lies in exactly one), and
\* after inserting every grid index once each cell holds the value of the
\* tile of its grid index.
C3_InsertRegionsPartitionAccumulator ==
    (tiler.live /\ ~outlier(tiler)) =>
        /\ \A c \in Cells(tiler.overall.shape) :
              Cardinality({g \in Grid(tiler) : c \in Targeted(tiler, g)}) = 1
        /\ \A ids \in [Grid(tiler) -> TileIds] :
              \A c \in Cells(tiler.overall.shape) :
                 InsertAll(tiler, GridSeq(tiler), ids).overall.at[c]
                    = Tile(ids[GridOf(tiler, c)], InteriorShape(tiler)).at[OffsetOf(tiler, c)]

\* a supersampled Tiler without outlier had every index of a grid of several
\* tiles inserted, tiles of both ids among them: each cell holds its tile
C3_Witness ==
    /\ tiler.live /\ ~outlier(tiler)
    /\ tiler.supersampling > 1
    /\ Cardinality(Grid(tiler)) > 1
    /\ t_call # None
    /\ \A c \in Cells(tiler.overall.shape) :
          /\ tiler.overall.at[c][1] # 0
          /\ <<tiler.overall.at[c][2], tiler.overall.at[c][3]>> = OffsetOf(tiler, c)
    /\ \A c, e \in Cells(tiler.overall.shape) :
          GridOf(tiler, c) = GridOf(tiler, e) => tiler.overall.at[c][1] = tiler.overall.at[e][1]
    /\ \E c, e \in Cells(tiler.overall.shape) :
          tiler.overall.at[c][1] # tiler.overall.at[e][1]

\* C4: a call of insert whose tile has not the interior shape, or whose
\* indices lie outside the grid, fails with a ShapeMismatchError: no such
\* call returns.
C4_MalformedInsertRaises ==
    (tiler.live /\ t_call # None) => WellFormed(tiler, Get(t_call))

\* the interior width on axis k of an outlier tile: half the tile
InteriorWidth(t, k) == t.shape[k] \div t.tiles_count[k]

\* the margins of the tile at g on axis k: from the tile's origin to its
\* interior, and from the interior's end to the tile's end
MarginBefore(t, g, k) == g[k] * InteriorWidth(t, k) - tile_indices(t)[g][k]

MarginAfter(t, g, k) ==
    (tile_indices(t)[g][k] + tile_shape(t)[k])
        - (g[k] * InteriorWidth(t, k) + InteriorWidth(t, k))

\* the origin of the tile at g plus tile_shape/4 is the origin of the
\* non-overlap tile, i * tile_shape / 2
OriginAligned(t, g, k) ==
    tile_indices(t)[g][k] + tile_shape(t)[k] \div 4 = g[k] * (tile_shape(t)[k] \div 2)

\* C7 as claimed: for a Tiler with outlier=True the tile origin plus
\* tile_shape/4 is the origin of the non-overlap tile, and the interior is
\* central: the margin before it equals the margin after it, also when the
\* interior width is odd.
C7_InteriorIsCentral ==
    (tiler.live /\ outlier(tiler)) =>
        \A g \in Grid(tiler), k \in 1 .. 2 :
            /\ OriginAligned(tiler, g, k)
            /\ MarginBefore(tiler, g, k) = MarginAfter(tiler, g, k)

\* C7 as amended: the origin plus tile_shape/4 (rounded down) is the origin
\* of the non-overlap tile; for interior width n the margin before the
\* interior is n/2 rounded down and the margin after it is n/2 rounded up:
\* the two are equal when n is even, and differ by one when n is odd.
C7_InteriorIsCentralUpToRounding ==
    (tiler.live /\ outlier(tiler)) =>
        \A g \in Grid(tiler), k \in 1 .. 2 :
            LET n == InteriorWidth(tiler, k)
            IN  /\ tile_shape(tiler)[k] = 2 * n
                /\ OriginAligned(tiler, g, k)
                /\ MarginBefore(tiler, g, k) = n \div 2
                /\ MarginAfter(tiler, g, k) = n - n \div 2

\* an outlier Tiler with an interior 3 wide: its tile starts 1 before the
\* interior and ends 2 after it
C7_Witness ==
    /\ tiler.live /\ outlier(tiler)
    /\ InteriorWidth(tiler, 2) = 3
    /\ MarginBefore(tiler, <<0, 0>>, 2) = 1
    /\ MarginAfter(tiler, <<0, 0>>, 2) = 2

\* a returned insert that kept to its contract wrote its tile over its
\* block and left the other cells alone
InsertOverwritesItsBlock ==
    (t_call' # None /\ WellFormed(tiler, Get(t_call'))) =>
        \A c \in Cells(tiler.overall.shape) :
            tiler'.overall.at[c] =
                IF GridOf(tiler, c) = Get(t_call').indices
                THEN Get(t_call').tile.at[OffsetOf(tiler, c)]
                ELSE tiler.overall.at[c]

\* well-formed inserts return, those at two different grid indices commute,
\* and inserting every index once gives the same accumulator in row-major
\* and in reverse order
InsertsCommute ==
    tiler.live =>
        /\ \A m \in DOMAIN GridSeq(tiler), n \in DOMAIN GridSeq(tiler) :
           \A i \in TileIds, j \in TileIds :
              LET g == GridSeq(tiler)[m]
                  h == GridSeq(tiler)[n]
                  a == Tile(i, InteriorShape(tiler))
                  b == Tile(j, InteriorShape(tiler))
                  ta == insert(tiler, a, g)
                  tb == insert(tiler, b, h)
              IN  m < n =>
                    /\ ta.exc = "none" /\ tb.exc = "none"
                    /\ insert([tiler EXCEPT !.overall = ta.overall], b, h).overall
                         = insert([tiler EXCEPT !.overall = tb.overall], a, g).overall
        /\ \A ids \in [Grid(tiler) -> TileIds] :
              InsertAll(tiler, GridSeq(tiler), ids).overall
                 = InsertAll(tiler, Reversed(GridSeq(tiler)), ids).overall

\* C10: a well-formed insert overwrites exactly the cells of its target
\* region with the tile's values and leaves every other cell unchanged;
\* inserts at two different grid indices commute, and the accumulator after
\* inserting each index once does not depend on the order.
C10_InsertOverwritesOnlyItsRegion ==
    [][InsertOverwritesItsBlock]_vars /\ []InsertsCommute

\* a well-formed insert returned, and a cell outside its block still holds
\* the other tile, which an earlier insert wrote there
C10_Witness ==
    /\ tiler.live
    /\ t_call # None
    /\ WellFormed(tiler, Get(t_call))
    /\ \E c \in Cells(tiler.overall.shape) :
          /\ GridOf(tiler, c) # Get(t_call).indices
          /\ tiler.overall.at[c][1] \in TileIds
          /\ tiler.overall.at[c][1] # Get(t_call).tile.at[<<0, 0>>][1]

=============================================================================
